---- MODULE Spec2Model ----
(***************************************************************************)
(* Model of wikitree/public.py: the microdata normalizer                   *)
(* (MicrodataView.__process_microdata__), the lazily loaded entity node    *)
(* (MicrodataView.load / __getattr__ / __repr__ / __dir__) and the Person  *)
(* constructor.                                                            *)
(*                                                                         *)
(* Python values are tagged records:                                       *)
(*   str   [t |-> "str",  s |-> <<tokens>>]   a string as a token sequence *)
(*   list  [t |-> "list", l |-> <<values>>]                                *)
(*   dict  [t |-> "dict", d |-> [key |-> value]]                           *)
(*   bool  [t |-> "bool", b |-> BOOLEAN]                                   *)
(*   None  [t |-> "none"]                                                  *)
(*   node  [t |-> "node", id |-> index into heap]   an object reference    *)
(*   self  [t |-> "self"]   the dict that holds the entry (alias)          *)
(*   err   [t |-> "err",  e |-> name]   a raised exception                 *)
(* A string is a sequence of tokens; concatenation is \o and the substring *)
(* test `tok in s` is membership of the token in the sequence.             *)
(***************************************************************************)
EXTENDS Integers, Sequences, FiniteSets, TLC

VARIABLES
    heap,       \* the objects constructed so far: <<[cls, dict]>>, dict is __dict__
    fetches,    \* number of urlopen calls that reached the network
    last,       \* the last operation, its result and the URLs it fetched
    born,       \* born[n]: the node whose load constructed n, 0 for the caller
    pin,        \* input of a call of a pure function
    pout,       \* its result
    praw        \* the object passed as its input, as it is after the call

vars == <<heap, fetches, last, born, pin, pout, praw>>

-----------------------------------------------------------------------------
(* Bounds *)

MaxNodes == 3
MaxFetches == 2
MaxLen == 2

-----------------------------------------------------------------------------
(* Python values *)

S(x) == [t |-> "str", s |-> x]
L(q) == [t |-> "list", l |-> q]
D(f) == [t |-> "dict", d |-> f]
B(b) == [t |-> "bool", b |-> b]
N(i) == [t |-> "node", id |-> i]
PyNone == [t |-> "none"]
SelfDict == [t |-> "self"]
Err(e) == [t |-> "err", e |-> e]
IsErr(v) == v.t = "err"

\* the key passed by load() for the top-level property tree
None == "None"

\* tokens of the URL strings
HTTP == "http://"
HTTPS == "https://"
HOST == "www.wikitree.com"
WIKI == "/wiki"
SLASH == "/"

\* `tok in s` for a string s
Contains(s, tok) == \E i \in DOMAIN s : s[i] = tok

-----------------------------------------------------------------------------
(* Person.__init__ *)

PersonInit_NoMarker(url) ==
    IF Contains(url, HTTP) THEN url
    ELSE <<HTTP, HOST, WIKI, SLASH>> \o url

PersonInit(url) ==
    IF Contains(url, HTTP) THEN url
    ELSE IF Contains(url, WIKI) THEN <<HTTP, HOST>> \o url
    ELSE <<HTTP, HOST, WIKI, SLASH>> \o url

\* the instance created by Person(arg): only self.url is set
Person(arg) == [cls |-> "Person", dict |-> [url |-> S(PersonInit(arg))]]

-----------------------------------------------------------------------------
(* Module-level tables *)

PersonType == <<"http://schema.org/Person">>
EventType == <<"http://schema.org/Event">>

always_lists_with_sibling == {"spouse", "parent", "marriage", "children", "sibling"}

always_lists == {"spouse", "parent", "marriage", "children"}

type_mapping == [ty \in {PersonType} |-> "Person"]

Person_keys == {"additionalName", "birth", "birthDate", "children", "death",
                "deathDate", "familyName", "gender", "givenName", "image",
                "marriage", "name", "parent", "sibling", "spouse",
                "startDate", "url"}

\* iteration order of data.items(): the order in which the keys were inserted
KeyOrder == <<"name", "url", "birth", "birthDate", "startDate", "parent",
              "sibling", "spouse", "children", "marriage", "properties">>

-----------------------------------------------------------------------------
(* Subscripting and copying, with the exceptions Python raises *)

\* x[0]
Index0(x) ==
    IF IsErr(x) THEN x
    ELSE IF x.t = "list" THEN (IF Len(x.l) = 0 THEN Err("IndexError") ELSE x.l[1])
    ELSE IF x.t = "str" THEN (IF Len(x.s) = 0 THEN Err("IndexError") ELSE S(<<x.s[1]>>))
    ELSE IF x.t = "dict" THEN Err("KeyError")
    ELSE Err("TypeError")

\* x[k] for a string key k
Subscript(x, k) ==
    IF IsErr(x) THEN x
    ELSE IF x.t = "dict" THEN (IF k \in DOMAIN x.d THEN x.d[k] ELSE Err("KeyError"))
    ELSE Err("TypeError")

\* dict(x)
DictCopy(x) ==
    IF IsErr(x) THEN x
    ELSE IF x.t = "dict" THEN x
    ELSE IF x.t = "list" /\ x.l = <<>> THEN D(<<>>)
    ELSE IF x.t = "str" /\ x.s = <<>> THEN D(<<>>)
    ELSE IF x.t \in {"list", "str"} THEN Err("ValueError")
    ELSE Err("TypeError")

\* __type__mapping__[ty](arg): the constructor call of line 55
Construct(cls, arg) ==
    IF arg.t = "str" THEN Person(arg.s) ELSE Err("TypeError")

-----------------------------------------------------------------------------
(* MicrodataView.__process_microdata__                                     *)
(* The result is [v |-> value or err, new |-> objects constructed, in      *)
(* order]; the k-th constructed object is referenced as N(base + k).       *)

R(v, new) == [v |-> v, new |-> new]

RECURSIVE OrderedKeys(_, _)
OrderedKeys(dom, i) ==
    IF i > Len(KeyOrder) THEN <<>>
    ELSE (IF KeyOrder[i] \in dom THEN <<KeyOrder[i]>> ELSE <<>>)
         \o OrderedKeys(dom, i + 1)

\* line 48: a one-element list under a key that is not always a list
Collapses_IgnoreKey(key, data) == Len(data.l) = 1

Collapses_NonEmpty(key, data) == Len(data.l) >= 1 /\ key \notin always_lists

Collapses(key, data) == Len(data.l) = 1 /\ key \notin always_lists

\* line 54: data['type'][0]
TypeOf_Last(data) ==
    LET ty == data.d["type"] IN
    IF ty.t = "list" /\ Len(ty.l) > 0 THEN ty.l[Len(ty.l)] ELSE Index0(ty)

TypeOf(data) == Index0(data.d["type"])

RECURSIVE Process(_, _, _), ProcessList(_, _, _), ProcessItems(_, _, _)

\* [self.__process_microdata__(key, d) for d in data]
ProcessList(key, q, base) ==
    IF q = <<>> THEN R(L(<<>>), <<>>)
    ELSE LET h == Process(key, Head(q), base) IN
         IF IsErr(h.v) THEN h
         ELSE LET r == ProcessList(key, Tail(q), base + Len(h.new)) IN
              IF IsErr(r.v) THEN r
              ELSE R(L(<<h.v>> \o r.v.l), h.new \o r.new)

\* for k, v in data.items(): data[k] = self.__process_microdata__(k, v)
ProcessItems_Raw(f, ks, base) == R(D(f), <<>>)

ProcessItems(f, ks, base) ==
    IF ks = <<>> THEN R(D(f), <<>>)
    ELSE LET k == Head(ks)
             h == Process(k, f[k], base) IN
         IF IsErr(h.v) THEN h
         ELSE LET r == ProcessItems([f EXCEPT ![k] = h.v], Tail(ks),
                                    base + Len(h.new)) IN
              IF IsErr(r.v) THEN r ELSE R(r.v, h.new \o r.new)

Process(key, data, base) ==
    IF data.t = "list" THEN
        IF Collapses(key, data)
        THEN Process(key, data.l[1], base)
        ELSE ProcessList(key, data.l, base)
    ELSE IF key = None \/ data.t = "dict" THEN
        IF data.t # "dict" THEN
            \* a str: `'type' in data` is a substring test, then data['type']
            \* or data.items() raises
            R(Err(IF Contains(data.s, "type") THEN "TypeError"
                  ELSE "AttributeError"), <<>>)
        ELSE IF "type" \in DOMAIN data.d THEN
            LET ty == TypeOf(data) IN
            IF IsErr(ty) THEN R(ty, <<>>)
            ELSE IF ty.t # "str" THEN R(Err("TypeError"), <<>>)
            ELSE IF ty.s \in DOMAIN type_mapping THEN
                LET u == Index0(Subscript(Subscript(data, "properties"), "url")) IN
                IF IsErr(u) THEN R(u, <<>>)
                ELSE LET o == Construct(type_mapping[ty.s], u) IN
                     IF "cls" \in DOMAIN o THEN R(N(base + 1), <<o>>)
                     ELSE R(o, <<>>)
            ELSE
                LET p == DictCopy(Subscript(data, "properties")) IN
                IF IsErr(p) THEN R(p, <<>>) ELSE Process(key, p, base)
        ELSE ProcessItems(data.d, OrderedKeys(DOMAIN data.d, 1), base)
    ELSE R(data, <<>>)

\* The object passed as data, as the call leaves it. A list is never
\* updated, a dict without a 'type' key is updated slot by slot (line 60),
\* the properties of a bag with an unmapped type are processed on a shallow
\* copy (line 57), which shares its values with the original; an exception
\* stops the updates where it is raised.
RECURSIVE RawAfter(_, _, _), RawAfterList(_, _, _), RawAfterItems(_, _, _),
          RawAfterShared(_, _, _)

RawAfterList(key, q, base) ==
    IF q = <<>> THEN <<>>
    ELSE LET h == Process(key, Head(q), base) IN
         <<RawAfter(key, Head(q), base)>>
         \o (IF IsErr(h.v) THEN Tail(q)
             ELSE RawAfterList(key, Tail(q), base + Len(h.new)))

\* data[k] = self.__process_microdata__(k, v), on data itself
RawAfterItems(f, ks, base) ==
    IF ks = <<>> THEN f
    ELSE LET k == Head(ks)
             h == Process(k, f[k], base) IN
         IF IsErr(h.v) THEN [f EXCEPT ![k] = RawAfter(k, f[k], base)]
         ELSE RawAfterItems([f EXCEPT ![k] = h.v], Tail(ks), base + Len(h.new))

\* the same loop on dict(data['properties']): the original keeps its slots
RawAfterShared(f, ks, base) ==
    IF ks = <<>> THEN f
    ELSE LET k == Head(ks)
             h == Process(k, f[k], base)
             g == [f EXCEPT ![k] = RawAfter(k, f[k], base)] IN
         IF IsErr(h.v) THEN g
         ELSE RawAfterShared(g, Tail(ks), base + Len(h.new))

RawAfter(key, data, base) ==
    IF data.t = "list" THEN
        IF Collapses(key, data)
        THEN L(<<RawAfter(key, data.l[1], base)>>)
        ELSE L(RawAfterList(key, data.l, base))
    ELSE IF data.t = "dict" THEN
        IF "type" \in DOMAIN data.d THEN
            LET ty == TypeOf(data) IN
            IF IsErr(ty) THEN data
            ELSE IF ty.t # "str" THEN data
            ELSE IF ty.s \in DOMAIN type_mapping THEN data
            ELSE
                LET p == DictCopy(Subscript(data, "properties")) IN
                IF IsErr(p) THEN data
                \* a property named type: the copy is read as a bag, whose
                \* 'properties' is a list of values; nothing is updated
                ELSE IF "type" \in DOMAIN p.d THEN data
                ELSE D([data.d EXCEPT !["properties"] =
                          D(RawAfterShared(p.d, OrderedKeys(DOMAIN p.d, 1), base))])
        ELSE D(RawAfterItems(data.d, OrderedKeys(DOMAIN data.d, 1), base))
    ELSE data

-----------------------------------------------------------------------------
(* Attribute lookup *)

\* class attributes of MicrodataView (lines 26-27)
ClassAttrs_Loaded == [__loaded__ |-> B(TRUE), __data__ |-> PyNone]

ClassAttrs == [__loaded__ |-> B(FALSE), __data__ |-> PyNone]

\* object.__getattribute__: the instance __dict__, then the class
GetAttribute(o, item) ==
    IF item \in DOMAIN o.dict THEN o.dict[item]
    ELSE IF item \in DOMAIN ClassAttrs THEN ClassAttrs[item]
    ELSE Err("AttributeError")

Truthy(v) ==
    IF v.t = "bool" THEN v.b
    ELSE IF v.t = "none" THEN FALSE
    ELSE IF v.t = "str" THEN v.s # <<>>
    ELSE IF v.t = "list" THEN v.l # <<>>
    ELSE IF v.t = "dict" THEN DOMAIN v.d # {}
    ELSE TRUE

\* self.__loaded__
Loaded(o) == Truthy(GetAttribute(o, "__loaded__"))

-----------------------------------------------------------------------------
(* The fetch and extraction collaborators: what urlopen + get_items may    *)
(* return for a URL.  items is the sequence of json_dict() trees.          *)

URLError == [kind |-> "URLError", items |-> <<>>]
Items(q) == [kind |-> "items", items |-> q]

-----------------------------------------------------------------------------
(* MicrodataView.load on heap h, node n, under response resp.              *)
(* Result: [res |-> PyNone or err, heap |-> heap after, urls |-> fetched,   *)
(* ld |-> "ok" or "failed"]                                                *)

LR(res, h, urls) ==
    [res |-> res, heap |-> h, urls |-> urls,
     ld |-> IF IsErr(res) THEN "failed" ELSE "ok"]

\* the result of an operation that ran load (ld) or did not ("none")
OR(res, h, urls, ld) == [res |-> res, heap |-> h, urls |-> urls, ld |-> ld]

\* an exception raised in lines 39-42 leaves the object as it was
Failed_Reset(e, h, n, urls) ==
    LR(e, [h EXCEPT ![n].dict =
              [k \in DOMAIN h[n].dict \ {"__loaded__"} |-> h[n].dict[k]]], urls)

Failed_Marked(e, h, n, urls) ==
    LR(e, [h EXCEPT ![n].dict =
              [k \in DOMAIN h[n].dict \cup {"__loaded__"} |->
                  IF k = "__loaded__" THEN B(TRUE) ELSE h[n].dict[k]]], urls)

Failed(e, h, n, urls) == LR(e, h, urls)

\* the mapping load() leaves in self.__dict__: the normalized properties,
\* then __data__ and __loaded__ stored into that same dict
NewDict_DropEmpty(rd, dataref) ==
    [k \in {j \in DOMAIN rd : rd[j] # L(<<>>)} \cup {"__data__", "__loaded__"} |->
        IF k = "__loaded__" THEN B(TRUE)
        ELSE IF k = "__data__" THEN dataref
        ELSE rd[k]]

NewDict(rd, dataref) ==
    [k \in DOMAIN rd \cup {"__data__", "__loaded__"} |->
        IF k = "__loaded__" THEN B(TRUE)
        ELSE IF k = "__data__" THEN dataref
        ELSE rd[k]]

\* a variant in which the nodes of one url share their mapping
Materialize_Interned(h, n, d, new, url) ==
    LR(PyNone,
       [m \in DOMAIN h |->
          IF m = n \/ GetAttribute(h[m], "url") = S(url)
          THEN [h[m] EXCEPT !.dict = d] ELSE h[m]] \o new,
       <<url>>)

\* a variant that fetches and fills the nodes the load constructed
Materialize_Eager(h, n, d, new, url) ==
    LR(PyNone,
       [h EXCEPT ![n].dict = d]
         \o [i \in 1..Len(new) |->
               [new[i] EXCEPT !.dict = [url |-> new[i].dict["url"],
                                        __loaded__ |-> B(TRUE)]]],
       <<url>> \o [i \in 1..Len(new) |-> new[i].dict["url"].s])

\* the heap after a load that succeeded: node n holds the new mapping, the
\* nodes the normalizer constructed come after the others as they were
\* constructed; the one URL fetched is the node's own
Materialize(h, n, d, new, url) ==
    LR(PyNone, [h EXCEPT ![n].dict = d] \o new, <<url>>)

LoadResult(h, n, resp) ==
    LET o == h[n]
        \* self.url: a missing attribute goes to __getattr__('url')
        u0 == GetAttribute(o, "url")
        u == IF ~IsErr(u0) THEN u0
             ELSE IF ~Loaded(o) THEN Err("RecursionError")
             ELSE Err("AttributeError")
    IN
    IF IsErr(u) THEN Failed(u, h, n, <<>>)
    ELSE IF u.t # "str" THEN Failed(Err("AttributeError"), h, n, <<>>)
    ELSE IF resp.kind = "URLError" THEN Failed(Err("URLError"), h, n, <<u.s>>)
    ELSE
        LET data == Subscript(Index0(L(resp.items)), "properties") IN
        IF IsErr(data) THEN Failed(data, h, n, <<u.s>>)
        ELSE
            LET r == Process(None, data, Len(h)) IN
            IF IsErr(r.v) THEN Failed(r.v, h, n, <<u.s>>)
            ELSE IF r.v.t # "dict" THEN Failed(Err("TypeError"), h, n, <<u.s>>)
            ELSE
                \* without a 'type' key the result is data itself, updated in
                \* place, so __dict__ and __data__ are the same dict
                LET dataref == IF data.t = "dict" /\ "type" \notin DOMAIN data.d
                               THEN SelfDict ELSE data
                IN Materialize(h, n, NewDict(r.v.d, dataref), r.new, u.s)

-----------------------------------------------------------------------------
(* Fixture documents *)

Str(tok) == S(<<tok>>)
AbsUrl(id) == <<HTTP, HOST, WIKI, SLASH, id>>
RelUrl(id) == <<WIKI, SLASH, id>>

\* json_dict() of an item with the given types and properties
Item(types, props) == D([type |-> L(types), properties |-> D(props)])

\* a typed reference to a person
PersonRef(url) == Item(<<S(PersonType)>>, [url |-> L(<<S(url)>>)])

\* the profile of the end-to-end example: name, url, one child, no parent
PageJane ==
    Item(<<S(PersonType)>>,
         [name |-> L(<<Str("Jane Doe")>>),
          url |-> L(<<S(AbsUrl("X-1"))>>),
          children |-> L(<<PersonRef(RelUrl("X-2"))>>),
          parent |-> L(<<>>)])

\* a profile without a url property, with two references to one parent
PageBob ==
    Item(<<S(PersonType)>>,
         [name |-> L(<<Str("Bob")>>),
          parent |-> L(<<PersonRef(RelUrl("X-1")), PersonRef(RelUrl("X-1"))>>)])

\* a profile with a reference that has no url
PageBad ==
    Item(<<S(PersonType)>>,
         [name |-> L(<<Str("Eve")>>),
          spouse |-> L(<<Item(<<S(PersonType)>>, [name |-> L(<<Str("Bob")>>)])>>)])

\* a profile whose one parent is the profile of PageJane
PageKid ==
    Item(<<S(PersonType)>>,
         [name |-> L(<<Str("Kid")>>),
          parent |-> L(<<PersonRef(RelUrl("X-1"))>>)])

Pages == {PageJane, PageBob, PageBad, PageKid}

\* what a fetch of any URL may produce: a transport error, a page without
\* microdata items, or a page whose first item is one of Pages
Responses == {URLError, Items(<<>>)} \cup {Items(<<p>>) : p \in Pages}

\* the arguments the caller constructs nodes from
CallerArgs == {<<"X-1">>}

\* the attribute names the caller reads
AttrNames == {"url", "name", "parent", "nickname"}

-----------------------------------------------------------------------------
(* Calls of the pure functions: the normalizer and the constructor *)

NoCall == [op |-> "none"]
Pending == [t |-> "pending"]

HttpsUrl(id) == <<HTTPS, HOST, WIKI, SLASH, id>>

Ids == {"X-1", "X-2"}

\* raw values that occur as elements of a property's value list
RefRel ==
    Item(<<S(PersonType)>>,
         [url |-> L(<<S(RelUrl("X-2"))>>), name |-> L(<<Str("Bob")>>)])
RefBare == PersonRef(<<"X-1">>)
RefTwoTypes ==
    Item(<<S(PersonType), S(EventType)>>,
         [url |-> L(<<S(AbsUrl("X-1")), S(AbsUrl("X-2"))>>),
          spouse |-> L(<<PersonRef(RelUrl("X-2"))>>)])
RefNoUrl == Item(<<S(PersonType)>>, [name |-> L(<<Str("Bob")>>)])
RefEmptyUrl == Item(<<S(PersonType)>>, [url |-> L(<<>>)])
EventFirst ==
    Item(<<S(EventType), S(PersonType)>>,
         [url |-> L(<<S(RelUrl("X-2"))>>), name |-> L(<<Str("Wedding")>>)])
Event ==
    Item(<<S(EventType)>>,
         [name |-> L(<<Str("Wedding")>>),
          startDate |-> L(<<Str("1922"), Str("1923")>>),
          spouse |-> L(<<PersonRef(RelUrl("X-2"))>>),
          sibling |-> L(<<RefBare>>)])
EventBad == Item(<<S(EventType)>>, [name |-> L(<<Str("Wedding")>>),
                                    spouse |-> L(<<RefNoUrl>>)])
\* an item without itemtype, as json_dict() renders it
Untyped == D([properties |-> D([name |-> L(<<Str("Oslo")>>)])])
\* a dict without a 'type' key
Plain == D([name |-> L(<<Str("Oslo")>>), parent |-> L(<<RefBare>>),
            birth |-> L(<<>>)])

Elems == {Str("Jane Doe"), Str("1922-05-07"), RefRel, RefBare, RefTwoTypes,
          RefNoUrl, RefEmptyUrl, EventFirst, Event, EventBad, Untyped, Plain}

RECURSIVE SeqsUpTo(_, _)
SeqsUpTo(X, n) ==
    IF n = 0 THEN {<<>>}
    ELSE LET P == SeqsUpTo(X, n - 1) IN
         P \cup {Append(q, x) : q \in {r \in P : Len(r) = n - 1}, x \in X}

RawInputs == Elems \cup {L(q) : q \in SeqsUpTo(Elems, MaxLen)}

PureKeys == {None, "name", "birth", "sibling", "parent", "spouse", "children",
             "marriage"}

\* constructor arguments: the spellings of a profile and other strings
ProfileArgs(id) == {<<id>>, RelUrl(id), AbsUrl(id), HttpsUrl(id)}

ConstructArgs ==
    UNION {ProfileArgs(id) : id \in Ids}
    \cup {<<HTTP, "example.org", SLASH, id>> : id \in Ids}
    \cup {<<SLASH, id>> : id \in Ids}
    \cup {<<"index.php?title=", id, "&u=", HTTP, HOST>> : id \in Ids}

\* the absolute URL, the site-relative path and the bare identifier of one
\* profile
ProfileTriples == {<<AbsUrl(id), RelUrl(id), <<id>>>> : id \in Ids}

\* a profile whose property k has no value
EmptyAttrPage(k) ==
    Item(<<S(PersonType)>>,
         [j \in {"name", k} |-> IF j = k THEN L(<<>>) ELSE L(<<Str("Ann")>>)])

\* the pages and the attribute names of a read on a new node
ReadPages == Pages \cup {EmptyAttrPage(k) : k \in PureKeys \ {None}}
ReadItems == (PureKeys \ {None}) \cup {"nickname"}

PureInputs ==
    {[op |-> "normalize", key |-> k, data |-> d] : k \in PureKeys, d \in RawInputs}
    \cup {[op |-> "construct", args |-> <<a>>] : a \in ConstructArgs}
    \cup {[op |-> "construct", args |-> q] : q \in ProfileTriples}
    \cup {[op |-> "read", arg |-> a, page |-> p, item |-> k] :
             a \in CallerArgs, p \in ReadPages, k \in ReadItems}

-----------------------------------------------------------------------------
(* The node life cycle *)

Nodes == 1..Len(heap)

\* the record of an operation: what was called on which node, its result,
\* the URLs it fetched, whether it ran load (ld), and, when the operation
\* before it ran load, on which node and how that ended (prev)
NoPrev == [n |-> 0, ld |-> "none", loaded |-> FALSE]

Op(op, n, item, res, urls, ld) ==
    [op |-> op, n |-> n, item |-> item, res |-> res, urls |-> urls, ld |-> ld,
     prev |-> IF last.ld = "none" THEN NoPrev
              ELSE [n |-> last.n, ld |-> last.ld,
                    loaded |-> Loaded(heap[last.n])]]

Init ==
    /\ heap = <<>>
    /\ fetches = 0
    /\ born = <<>>
    /\ last = [op |-> "init", n |-> 0, item |-> None, res |-> PyNone,
               urls |-> <<>>, ld |-> "none",
               prev |-> NoPrev]
    /\ pin = NoCall
    /\ pout = Pending
    /\ praw = PyNone

\* p = Person(arg), called by the user of the library
New(arg) ==
    /\ Len(heap) < MaxNodes
    /\ heap' = Append(heap, Person(arg))
    /\ born' = Append(born, 0)
    /\ last' = Op("new", Len(heap) + 1, None, PyNone, <<>>, "none")
    /\ UNCHANGED <<fetches, pin, pout, praw>>

\* the effect of a load of n that got resp, finished by operation op
Finish(op, n, item, lr, res) ==
    /\ fetches + Len(lr.urls) <= MaxFetches
    /\ Len(lr.heap) <= MaxNodes
    /\ heap' = lr.heap
    /\ born' = born \o [i \in 1..(Len(lr.heap) - Len(heap)) |-> n]
    /\ fetches' = fetches + Len(lr.urls)
    /\ last' = Op(op, n, item, res, lr.urls, lr.ld)
    /\ UNCHANGED <<pin, pout, praw>>

\* p.load()
Load(n) ==
    \E resp \in Responses :
        LET lr == LoadResult(heap, n, resp) IN
        Finish("load", n, None, lr, lr.res)

\* p.<item>: normal lookup, and __getattr__ when that fails
GetAttrResult_AlwaysLoad(h, n, item, resp) ==
    LET lr == LoadResult(h, n, resp) IN
    IF IsErr(lr.res) THEN lr
    ELSE OR(GetAttribute(lr.heap[n], item), lr.heap, lr.urls, "ok")

GetAttrResult_NoLoad(h, n, item, resp) ==
    OR(GetAttribute(h[n], item), h, <<>>, "none")

GetAttrResult(h, n, item, resp) ==
    LET o == h[n]
        v == GetAttribute(o, item)
    IN
    IF ~IsErr(v) THEN OR(v, h, <<>>, "none")
    ELSE IF ~Loaded(o) THEN
        LET lr == LoadResult(h, n, resp) IN
        IF IsErr(lr.res) THEN lr
        ELSE OR(GetAttribute(lr.heap[n], item), lr.heap, lr.urls, "ok")
    ELSE OR(GetAttribute(o, item), h, <<>>, "none")

\* only a read that reaches load() consults the network
Fetching(o, item) == IsErr(GetAttribute(o, item)) /\ ~Loaded(o)

GetAttr(n, item) ==
    \E resp \in IF Fetching(heap[n], item) THEN Responses ELSE {URLError} :
        LET gr == GetAttrResult(heap, n, item, resp) IN
        Finish("getattr", n, item, gr, gr.res)

\* s.replace(pat, '')
RECURSIVE Remove(_, _)
Remove(s, pat) ==
    IF Len(s) < Len(pat) THEN s
    ELSE IF SubSeq(s, 1, Len(pat)) = pat
         THEN Remove(SubSeq(s, Len(pat) + 1, Len(s)), pat)
         ELSE <<Head(s)>> \o Remove(Tail(s), pat)

\* repr(p)
ReprResult(o) ==
    IF Loaded(o) THEN [t |-> "pformat", d |-> o.dict]
    ELSE [t |-> "tag", cls |-> o.cls,
          url |-> Remove(GetAttribute(o, "url").s, <<HTTP, HOST, WIKI, SLASH>>)]

Repr(n) ==
    /\ last' = Op("repr", n, None, ReprResult(heap[n]), <<>>, "none")
    /\ UNCHANGED <<heap, born, fetches, pin, pout, praw>>

\* dir(p)
DirResult_Declared(o) == [t |-> "names", names |-> Person_keys]

DirResult_DictKeys(o) == [t |-> "names", names |-> DOMAIN o.dict]

DirResult(o) ==
    [t |-> "names", names |-> IF Loaded(o) THEN DOMAIN o.dict ELSE Person_keys]

Dir(n) ==
    /\ last' = Op("dir", n, None, DirResult(heap[n]), <<>>, "none")
    /\ UNCHANGED <<heap, born, fetches, pin, pout, praw>>

Next ==
    \/ \E arg \in CallerArgs : New(arg)
    \/ \E n \in Nodes : Load(n)
    \/ \E n \in Nodes, item \in AttrNames : GetAttr(n, item)
    \/ \E n \in Nodes : Repr(n)
    \/ \E n \in Nodes : Dir(n)

Spec == Init /\ [][Next]_vars

-----------------------------------------------------------------------------
(* The pure functions applied to one input *)

InitPure ==
    /\ heap = <<>>
    /\ fetches = 0
    /\ born = <<>>
    /\ last = [op |-> "init", n |-> 0, item |-> None, res |-> PyNone,
               urls |-> <<>>, ld |-> "none", prev |-> NoPrev]
    /\ pin \in PureInputs
    /\ pout = Pending
    /\ praw = IF pin.op = "normalize" THEN pin.data ELSE PyNone

\* self.__process_microdata__(key, data), no object constructed before
Normalize ==
    /\ pin.op = "normalize"
    /\ pout = Pending
    /\ pout' = Process(pin.key, pin.data, 0)
    /\ praw' = RawAfter(pin.key, pin.data, 0)
    /\ UNCHANGED <<heap, fetches, last, born, pin>>

\* Person(arg) for each of the arguments
ConstructNodes ==
    /\ pin.op = "construct"
    /\ pout = Pending
    /\ pout' = R(PyNone, [i \in 1..Len(pin.args) |-> Person(pin.args[i])])
    /\ UNCHANGED <<heap, fetches, last, born, pin, praw>>

\* p = Person(arg); p.<item>; dir(p), the fetch answered with the page
ReadThenDir ==
    /\ pin.op = "read"
    /\ pout = Pending
    /\ LET gr == GetAttrResult(<<Person(pin.arg)>>, 1, pin.item,
                               Items(<<pin.page>>)) IN
       pout' = [read |-> gr, names |-> DirResult(gr.heap[1]).names]
    /\ UNCHANGED <<heap, fetches, last, born, pin, praw>>

NextPure == Normalize \/ ConstructNodes \/ ReadThenDir

SpecPure == InitPure /\ [][NextPure]_vars

TypeOK ==
    /\ Len(heap) <= MaxNodes
    /\ Len(born) = Len(heap)
    /\ fetches \in 0..MaxFetches

-----------------------------------------------------------------------------
(* Properties of the node life cycle (Spec) *)

\* the step is an attribute read, or a load, of node n
ReadStep(n) == last'.op = "getattr" /\ last'.n = n
LoadStep(n) == last'.op = "load" /\ last'.n = n

\* C1 (single-load law): an attribute read fetches at most once; the read
\* that takes a node from unloaded to loaded fetches exactly once; a read
\* on a loaded node, of a present or an absent name, fetches nothing,
\* changes nothing and returns what the node's mapping holds for the name
\* (the not-found signal for an absent name).
C1_SingleLoad ==
    [][\A n \in Nodes :
         ReadStep(n) =>
           /\ Len(last'.urls) <= 1
           /\ fetches' = fetches + Len(last'.urls)
           /\ (~Loaded(heap[n]) /\ Loaded(heap'[n]) => Len(last'.urls) = 1)
           /\ (Loaded(heap[n]) =>
                 /\ last'.urls = <<>>
                 /\ heap' = heap
                 /\ last'.res = IF last'.item \in DOMAIN heap[n].dict
                                 THEN heap[n].dict[last'.item]
                                 ELSE Err("AttributeError"))]_vars

\* a read of a non-identity attribute on a node that the read before it
\* loaded: it fetched nothing
C1_Witness ==
    /\ last.op = "getattr" /\ last.item = "name"
    /\ last.prev.ld = "ok" /\ last.prev.n = last.n
    /\ last.urls = <<>> /\ last.res = Str("Jane Doe")
    /\ fetches = 1

\* C2 (reference laziness): Person(arg) fetches nothing, leaves the other
\* nodes as they were and yields an unloaded node; every node constructed
\* while another node loads is unloaded, and that load fetches at most once;
\* a node goes from unloaded to loaded only in a step that is its own load()
\* or a read of one of its own non-identity attributes.
C2_ReferenceLaziness ==
    [][/\ last'.op = "new" =>
            /\ fetches' = fetches /\ last'.urls = <<>>
            /\ Len(heap') = Len(heap) + 1
            /\ SubSeq(heap', 1, Len(heap)) = heap
            /\ ~Loaded(heap'[Len(heap')])
       /\ \A m \in (Len(heap) + 1)..Len(heap') : ~Loaded(heap'[m])
       /\ fetches' <= fetches + 1
       /\ \A n \in Nodes :
            (~Loaded(heap[n]) /\ Loaded(heap'[n])) =>
               \/ LoadStep(n)
               \/ ReadStep(n) /\ last'.item # "url"]_vars

\* a loaded node holds a reference to a node that its load constructed and
\* that is still unloaded
C2_Witness ==
    \E n \in Nodes :
        /\ born[n] # 0 /\ Loaded(heap[born[n]])
        /\ ~Loaded(heap[n])
        /\ \E k \in DOMAIN heap[born[n]].dict :
              LET v == heap[born[n]].dict[k] IN
              v.t = "list" /\ v.l # <<>> /\ v.l[1] = N(n)
        /\ fetches = 1

\* C3 (no failure caching): when load fails on an unloaded node (transport
\* error, no microdata item, a typed reference without url), no object
\* changes: the node is still unloaded and holds nothing but its url; the
\* next read of a non-identity attribute of that node fetches its url again.
C3_FailedLoadNotCached ==
    [][/\ \A n \in Nodes :
            ((ReadStep(n) \/ LoadStep(n)) /\ last'.ld = "failed"
             /\ ~Loaded(heap[n])) =>
               /\ heap' = heap
               /\ ~Loaded(heap'[n])
               /\ DOMAIN heap'[n].dict = {"url"}
       /\ \A n \in Nodes :
            (last.ld = "failed" /\ last.n = n /\ ~Loaded(heap[n])
             /\ ReadStep(n) /\ last'.item # "url") =>
               /\ last'.urls = <<heap[n].dict["url"].s>>
               /\ fetches' = fetches + 1]_vars

\* a read that fetched again right after a load of the same node had failed
C3_Witness ==
    /\ last.op = "getattr" /\ last.item # "url"
    /\ last.prev.ld = "failed" /\ last.prev.n = last.n /\ ~last.prev.loaded
    /\ Len(last.urls) = 1
    /\ fetches = 2

-----------------------------------------------------------------------------
(* Properties of the normalizer and the constructor (SpecPure) *)

NormDone == pin.op = "normalize" /\ pout # Pending
ConsDone == pin.op = "construct" /\ pout # Pending

\* the number of node references in a normalized value
RECURSIVE NodesIn(_), NodesInSeq(_)
NodesIn(v) ==
    IF v.t = "node" THEN 1
    ELSE IF v.t = "list" THEN NodesInSeq(v.l)
    ELSE IF v.t = "dict" THEN
        LET ks == OrderedKeys(DOMAIN v.d, 1) IN
        NodesInSeq([i \in 1..Len(ks) |-> v.d[ks[i]]])
    ELSE 0
NodesInSeq(q) ==
    IF Len(q) = 0 THEN 0 ELSE NodesIn(q[1]) + NodesInSeq(Tail(q))

\* normalizing x under key raises
Raises(key, x) == IsErr(Process(key, x, 0).v)

IsSingleton(d) == d.t = "list" /\ Len(d.l) = 1

\* C4 (singleton collapse): under a key outside the always-multivalued set,
\* [x] normalizes to what x normalizes to (value, constructed nodes or the
\* exception); under a key in the set, to the one-element list of it.
C4_SingletonCollapse ==
    (NormDone /\ IsSingleton(pin.data)) =>
        LET e == Process(pin.key, pin.data.l[1], 0) IN
        IF pin.key \notin always_lists THEN pout = e
        ELSE IF IsErr(e.v) THEN pout = e
        ELSE pout = R(L(<<e.v>>), e.new)

\* [typed reference] under "name" became the node itself
C4_Witness ==
    /\ NormDone /\ pin.key = "name" /\ pin.data = L(<<RefRel>>)
    /\ pout.v = N(1)

\* C5 as stated: a one-element list stays a list exactly under parent,
\* spouse, sibling, children and marriage.
C5_Original ==
    (NormDone /\ IsSingleton(pin.data) /\ ~IsErr(pout.v)) =>
        (pout.v.t = "list"
           <=> pin.key \in {"parent", "spouse", "sibling", "children", "marriage"})

\* C5 (amended): a one-element list stays a one-element list exactly under
\* parent, spouse, children and marriage; under every other key, sibling
\* included, it collapses to its element.
C5_AlwaysListsExact ==
    (NormDone /\ IsSingleton(pin.data) /\ ~IsErr(pout.v)) =>
        IF pin.key \in {"parent", "spouse", "children", "marriage"}
        THEN pout.v.t = "list" /\ Len(pout.v.l) = 1
        ELSE pout.v.t # "list"

\* a single sibling reference became a node, not a list
C5_Witness ==
    /\ NormDone /\ pin.key = "sibling" /\ IsSingleton(pin.data)
    /\ pout.v.t = "node"

\* C6 (multivalue preservation): a list of two or more elements normalizes
\* to a list of the same length whose i-th element is the normalization of
\* the i-th element under the same key (its nodes numbered after those of
\* the elements before it); it raises exactly when an element does.
C6_MultivaluePreservation ==
    (NormDone /\ pin.data.t = "list" /\ Len(pin.data.l) >= 2) =>
        LET q == pin.data.l IN
        IF \E i \in 1..Len(q) : Raises(pin.key, q[i]) THEN IsErr(pout.v)
        ELSE /\ pout.v.t = "list"
             /\ Len(pout.v.l) = Len(q)
             /\ \A i \in 1..Len(q) :
                   pout.v.l[i] =
                     Process(pin.key, q[i],
                             NodesInSeq(SubSeq(pout.v.l, 1, i - 1))).v
             /\ Len(pout.new) = NodesInSeq(pout.v.l)

\* two references under a collapsing key gave two nodes, in order
C6_Witness ==
    /\ NormDone /\ pin.key = "sibling" /\ pin.data = L(<<RefRel, RefBare>>)
    /\ pout.v = L(<<N(1), N(2)>>)
    /\ pout.new[1].dict["url"] = S(AbsUrl("X-2"))
    /\ pout.new[2].dict["url"] = S(AbsUrl("X-1"))

\* a bag with a type tag and a url property whose first value is a string
IsTagged(d) ==
    /\ d.t = "dict" /\ "type" \in DOMAIN d.d /\ "properties" \in DOMAIN d.d
    /\ d.d["type"].t = "list" /\ Len(d.d["type"].l) > 0
HasUrl(d) ==
    LET props == d.d["properties"].d IN
    /\ "url" \in DOMAIN props
    /\ Len(props["url"].l) > 0
    /\ props["url"].l[1].t = "str"

\* C7 (typed reference): a bag whose first type is schema.org/Person
\* normalizes to a reference to one new object, a Person that holds nothing
\* but the url Person() derives from the first value of the bag's url
\* property and is not loaded; nothing else is constructed; a bag whose
\* first type is another one is no node, whatever its later types are.
C7_TypedReference ==
    (NormDone /\ IsTagged(pin.data) /\ HasUrl(pin.data)) =>
        IF pin.data.d["type"].l[1] = S(PersonType)
        THEN /\ pout.v = N(1)
             /\ Len(pout.new) = 1
             /\ pout.new[1].cls = "Person"
             /\ pout.new[1].dict =
                  [url |-> S(PersonInit(pin.data.d["properties"].d["url"].l[1].s))]
             /\ ~Loaded(pout.new[1])
        ELSE pout.v.t # "node"

\* a bag tagged Person then Event, with a reference among its properties
C7_Witness ==
    /\ NormDone /\ pin.data = RefTwoTypes
    /\ pout.v = N(1) /\ Len(pout.new) = 1
    /\ pout.new[1].dict["url"] = S(AbsUrl("X-1"))

\* the properties of a bag that is not a typed reference
IsPassthrough(d) ==
    /\ d.t = "dict"
    /\ "type" \in DOMAIN d.d => IsTagged(d) /\ d.d["type"].l[1] # S(PersonType)
PropsOf(d) == IF "type" \in DOMAIN d.d THEN d.d["properties"].d ELSE d.d

C9_IdentityNormalization ==
    (ConsDone /\ pin.args \in ProfileTriples) =>
        LET id == pin.args[3][1] IN
        /\ pout.new[1].dict["url"] = pout.new[2].dict["url"]
        /\ pout.new[2].dict["url"] = pout.new[3].dict["url"]
        /\ pout.new[3].dict["url"] = S(<<HTTP, HOST, WIKI, SLASH, id>>)

\* the three spellings of X-1 gave three nodes with one url
C9_Witness ==
    /\ ConsDone
    /\ pin.args = <<AbsUrl("X-1"), RelUrl("X-1"), <<"X-1">>>>
    /\ \A i \in 1..3 : pout.new[i].dict["url"] = S(AbsUrl("X-1"))

\* an absolute URL: it starts with a scheme
IsAbsolute(arg) == Len(arg) > 0 /\ arg[1] \in {HTTP, HTTPS}

\* C10 as stated: an absolute URL is the identity unchanged; otherwise an
\* argument with the /wiki marker gets the origin in front; otherwise the
\* argument is put in the profile-URL template.
C10_ConstructDispatch ==
    (ConsDone /\ Len(pin.args) = 1) =>
        LET arg == pin.args[1] IN
        pout.new[1].dict["url"] =
            S(IF IsAbsolute(arg) THEN arg
              ELSE IF Contains(arg, WIKI) THEN <<HTTP, HOST>> \o arg
              ELSE <<HTTP, HOST, WIKI, SLASH>> \o arg)

-----------------------------------------------------------------------------
(* Further properties of the node life cycle (Spec) *)

\* C11 (cycle safety): a read or a load of node n fetches at most once, and
\* only the url n held; it changes no other node; the nodes it constructs
\* for the references of the page (a reference back to an ancestor's URL
\* included) are new nodes that hold nothing but their url and are not
\* loaded. So a chain of n reads costs at most n fetches and a cycle of
\* references is never followed inside one step.
C11_CycleSafety ==
    [][\A n \in Nodes :
         (ReadStep(n) \/ LoadStep(n)) =>
           /\ Len(last'.urls) <= 1
           /\ fetches' = fetches + Len(last'.urls)
           /\ \A i \in DOMAIN last'.urls :
                 /\ "url" \in DOMAIN heap[n].dict
                 /\ last'.urls[i] = heap[n].dict["url"].s
           /\ \A m \in Nodes \ {n} : heap'[m] = heap[m]
           /\ \A m \in (Len(heap) + 1)..Len(heap') :
                 /\ born'[m] = n
                 /\ DOMAIN heap'[m].dict = {"url"}
                 /\ ~Loaded(heap'[m])]_vars

\* the cycle walked once: a loaded, its child b loaded, and the parent c of
\* b, a new unloaded node with the URL of a; two fetches
C11_Witness ==
    \E a, b, c \in Nodes :
        /\ born[a] = 0 /\ born[b] = a /\ born[c] = b
        /\ Loaded(heap[a]) /\ Loaded(heap[b]) /\ ~Loaded(heap[c])
        /\ GetAttribute(heap[a], "children") = L(<<N(b)>>)
        /\ GetAttribute(heap[b], "parent") = L(<<N(c)>>)
        /\ GetAttribute(heap[a], "url") = S(AbsUrl("X-1"))
        /\ heap[c].dict = [url |-> S(AbsUrl("X-1"))]
        /\ fetches = 2

\* C13 (unknown attribute): a read of a name that the mapping of a loaded
\* node lacks gives the not-found signal and fetches nothing; a read of a
\* name other than url on an unloaded node runs the load first, fetching the
\* node's url, and gives the not-found signal exactly when the load
\* succeeded and the new mapping lacks the name; when the mapping has the
\* name the read returns its value.
C13_UnknownAttribute ==
    [][\A n \in Nodes :
         ReadStep(n) =>
           /\ (Loaded(heap[n]) /\ last'.item \notin DOMAIN heap[n].dict) =>
                 /\ last'.res = Err("AttributeError")
                 /\ last'.urls = <<>> /\ last'.ld = "none"
                 /\ fetches' = fetches
           /\ (~Loaded(heap[n]) /\ last'.item # "url") =>
                 /\ last'.ld \in {"ok", "failed"}
                 /\ last'.urls = <<heap[n].dict["url"].s>>
                 /\ fetches' = fetches + 1
                 /\ (last'.res = Err("AttributeError")
                       <=> (last'.ld = "ok"
                            /\ last'.item \notin DOMAIN heap'[n].dict))
                 /\ (last'.ld = "ok" /\ last'.item \in DOMAIN heap'[n].dict) =>
                       last'.res = heap'[n].dict[last'.item]]_vars

\* a read of nickname on an unloaded node: the load ran and succeeded, the
\* page has no nickname
C13_Witness ==
    /\ last.op = "getattr" /\ last.item = "nickname"
    /\ last.ld = "ok" /\ Len(last.urls) = 1
    /\ Loaded(heap[last.n])
    /\ last.res = Err("AttributeError")

\* C14 (introspection of an unloaded node): repr(), dir() and a read of url
\* on an unloaded node fetch nothing and change no object, so the node stays
\* unloaded; repr() gives the tag of the class name Person and the url
\* without the profile-URL prefix http://www.wikitree.com/wiki/; dir()
\* gives the seventeen declared names of Person; the read gives the url.
C14_UnloadedIntrospection ==
    [][\A n \in Nodes :
         (/\ last'.n = n /\ ~Loaded(heap[n])
          /\ \/ last'.op \in {"repr", "dir"}
             \/ last'.op = "getattr" /\ last'.item = "url") =>
           /\ heap' = heap /\ ~Loaded(heap'[n])
           /\ fetches' = fetches
           /\ last'.urls = <<>> /\ last'.ld = "none"
           /\ last'.op = "repr" =>
                 /\ last'.res.t = "tag"
                 /\ last'.res.cls = "Person"
                 /\ <<HTTP, HOST, WIKI, SLASH>> \o last'.res.url
                      = heap[n].dict["url"].s
           /\ last'.op = "dir" =>
                 /\ last'.res.names = Person_keys
                 /\ Cardinality(last'.res.names) = 17
           /\ last'.op = "getattr" => last'.res = heap[n].dict["url"]]_vars

\* dir() of a reference node that was never loaded, after the one fetch of
\* its parent's load
C14_Witness ==
    /\ last.op = "dir" /\ born[last.n] # 0
    /\ ~Loaded(heap[last.n])
    /\ "birthDate" \in last.res.names /\ "__loaded__" \notin last.res.names
    /\ fetches = 1

\* the properties of a fetched page
PageProps(page) == page.d["properties"].d

\* C16 as stated: the url of a node never changes after construction, and
\* every fetch a node issues targets that url.
C16_IdentityStable ==
    [][\A n \in Nodes :
         /\ GetAttribute(heap'[n], "url") = GetAttribute(heap[n], "url")
         /\ (ReadStep(n) \/ LoadStep(n)) =>
               \A i \in DOMAIN last'.urls :
                  S(last'.urls[i]) = GetAttribute(heap[n], "url")]_vars

\* C17 (one-way life cycle): every node is unloaded when it is constructed,
\* by the caller or by a load; no step removes a node, and a node that is
\* loaded is loaded after every step: a read, repr(), dir(), a load of
\* another node, and a further load of itself that succeeds or fails.
C17_LifecycleOneWay ==
    [][/\ Len(heap') >= Len(heap)
       /\ \A m \in (Len(heap) + 1)..Len(heap') : ~Loaded(heap'[m])
       /\ \A n \in Nodes : Loaded(heap[n]) => Loaded(heap'[n])]_vars

\* a further load of a loaded node fetched and failed; the node is loaded
C17_Witness ==
    /\ last.op = "load" /\ last.ld = "failed"
    /\ Len(last.urls) = 1 /\ fetches = 2
    /\ Loaded(heap[last.n])
    /\ last.res \in {Err("URLError"), Err("IndexError"), Err("KeyError")}

\* C19 as stated: load() on a loaded node fetches once more, and when it
\* succeeds the node's mapping is the one built from the normalized
\* properties of a page.
C19_ReloadRefetches ==
    [][\A n \in Nodes :
         (LoadStep(n) /\ Loaded(heap[n])) =>
           /\ Len(last'.urls) = 1
           /\ fetches' = fetches + 1
           /\ last'.ld = "ok" =>
                 \E p \in Pages :
                    LET r == Process(None, D(PageProps(p)), Len(heap)) IN
                    /\ ~IsErr(r.v)
                    /\ heap'[n].dict = NewDict(r.v.d, SelfDict)]_vars

\* the node ids referenced in a value, in order
RECURSIVE RefsIn(_), RefsInSeq(_)
RefsIn(v) ==
    IF v.t = "node" THEN <<v.id>>
    ELSE IF v.t = "list" THEN RefsInSeq(v.l)
    ELSE IF v.t = "dict" THEN
        LET ks == OrderedKeys(DOMAIN v.d, 1) IN
        RefsInSeq([i \in 1..Len(ks) |-> v.d[ks[i]]])
    ELSE <<>>
RefsInSeq(q) ==
    IF Len(q) = 0 THEN <<>> ELSE RefsIn(q[1]) \o RefsInSeq(Tail(q))

\* C20 (no interning): a read or a load of a node, succeeding or failing,
\* changes no other node, neither one with the same URL nor the node whose
\* load constructed it; when it fails no node changes; when it loads, the
\* references in the new mapping are, in order, the nodes the step
\* constructed: one new node for each reference, also when two references
\* carry one URL, and none of the nodes that existed before.
C20_NodesIndependent ==
    [][\A n \in Nodes :
         (ReadStep(n) \/ LoadStep(n)) =>
           /\ \A m \in Nodes \ {n} : heap'[m] = heap[m]
           /\ last'.ld # "ok" => heap' = heap
           /\ last'.ld = "ok" =>
                 LET q == RefsIn(D(heap'[n].dict)) IN
                 /\ Len(heap') = Len(heap) + Len(q)
                 /\ q = [i \in 1..Len(q) |-> Len(heap) + i]]_vars

\* two references to one URL in one page gave two nodes; a load of the
\* first failed: it, its twin and their parent are as before
C20_Witness ==
    \E a \in Nodes :
        /\ a + 2 \in Nodes
        /\ GetAttribute(heap[a], "parent") = L(<<N(a + 1), N(a + 2)>>)
        /\ heap[a + 1].dict = heap[a + 2].dict
        /\ last.n = a + 1 /\ last.ld = "failed" /\ Len(last.urls) = 1
        /\ ~Loaded(heap[a + 1]) /\ ~Loaded(heap[a + 2]) /\ Loaded(heap[a])
        /\ fetches = 2

-----------------------------------------------------------------------------
(* Further properties of the normalizer and of a read on a new node
   (SpecPure) *)

ReadDone == pin.op = "read" /\ pout # Pending

\* C12 (empty list): under every key the empty list normalizes to the empty
\* list and constructs nothing; after a load that succeeded, a property
\* whose raw value is the empty list is in the node's mapping and a read of
\* it returns the empty list, not the not-found signal.
C12_EmptyList ==
    /\ (NormDone /\ pin.data = L(<<>>)) => pout = R(L(<<>>), <<>>)
    /\ (/\ ReadDone /\ pout.read.ld = "ok"
        /\ pin.item \in DOMAIN PageProps(pin.page)
        /\ PageProps(pin.page)[pin.item] = L(<<>>)) =>
          /\ pin.item \in DOMAIN pout.read.heap[1].dict
          /\ pout.read.res = L(<<>>)

\* the read of parent after the load of a page with parent = []
C12_Witness ==
    /\ ReadDone /\ pin.page = PageJane /\ pin.item = "parent"
    /\ pout.read.ld = "ok" /\ Len(pout.read.urls) = 1
    /\ pout.read.res = L(<<>>)

\* the names of the mapping that normalizing the page's properties gives
NormalizedNames(page) == DOMAIN Process(None, D(PageProps(page)), 1).v.d

\* C15 as stated: after a load that succeeded, dir() is exactly the set of
\* names of the normalized properties of the fetched item.
C15_Original ==
    (ReadDone /\ pout.read.ld = "ok") =>
        pout.names = NormalizedNames(pin.page)

\* C15 (amended): after a load that succeeded, dir() is the set of names of
\* the normalized properties of the fetched item together with the two
\* names __data__ and __loaded__ that load() stores in the same mapping:
\* every materialized name is listed, and no name besides these.
C15_LoadedNames ==
    (ReadDone /\ pout.read.ld = "ok") =>
        /\ pout.names = NormalizedNames(pin.page) \cup {"__data__", "__loaded__"}
        /\ pout.names = DOMAIN pout.read.heap[1].dict

\* dir() after the load of the example profile
C15_Witness ==
    /\ ReadDone /\ pin.page = PageJane /\ pout.read.ld = "ok"
    /\ pout.names = {"name", "url", "children", "parent",
                     "__data__", "__loaded__"}

\* C18 as stated: the normalizer fetches nothing and leaves the object it
\* was given as it was, at every level of nesting.
C18_NormalizerPure ==
    NormDone => (fetches = 0 /\ praw = pin.data)

====
